---- MODULE Spec2Model ----
(***************************************************************************)
(* Model of datagatherer_results.py: the checkpointed harvest of match     *)
(* listings (get_results), the per-record detail pass (enrich_results),    *)
(* the two persisted JSON files and the failure log, and main().           *)
(*                                                                         *)
(* One process runs at a time.  It may be killed at any point; everything  *)
(* in memory is then lost and only the three files survive.  A file write  *)
(* (open(..., "w") followed by json.dump) takes two steps: the open        *)
(* truncates the file, the dump completes it.                              *)
(***************************************************************************)
EXTENDS Integers, Sequences, FiniteSets, TLC

\* ------------------------------------------------------------------ config
MAX_RUNTIME_SECONDS == 18000
MAX_RESULTS_OFFSET == 100
MAX_RETRIES == 3
PAGE_STRIDE == 100
SAVE_EVERY_RESULTS == 500
SAVE_EVERY_PAGES == 10
SAVE_EVERY_ENRICHMENTS == 50

\* ------------------------------------------------------------------ bounds
\* Process starts in one behaviour.
MaxRuns == 2
\* Numeric match ids a listing page can carry are 1..MaxMatchId.
MaxMatchId == 1
\* Result rows on one listing page.
MaxPageLen == 2
\* Lines the failure log can reach (fetches that fail in one behaviour).
MaxFailures == 1
\* File writes that fail in one run.
MaxWriteFailures == 1
\* Fetches of the team listing in one run.
MaxTeamFetches == 2

\* The id segment of a row's href: a numeric string (its value), or text that
\* is no number.
NonNumeric == -1
Segments == (1..MaxMatchId) \cup {NonNumeric}

\* converters.to_int(href.split("/")[-2]): the integer, or the default 0 when
\* the segment is not a number.
to_int(seg) == IF seg \in Nat THEN seg ELSE 0

MatchIds == 0..MaxMatchId

RECURSIVE SeqsUpTo(_, _)
SeqsUpTo(S, n) ==
  IF n = 0 THEN {<<>>}
  ELSE LET shorter == SeqsUpTo(S, n - 1)
       IN shorter \cup {Append(s, x) : s \in {t \in shorter : Len(t) = n - 1}, x \in S}

\* What a successfully fetched listing page can hold: the rows' id segments.
PageContents == SeqsUpTo(Segments, MaxPageLen)

\* ------------------------------------------------------------------- files
\* A file is absent, torn (opened for writing and not yet completely
\* written: empty or a prefix of the JSON text) or holds a JSON document.
\* The checkpoint is a JSON object: `keys` are the keys it has, and the field
\* of a key it lacks is written 0 or {} here.
StateKeys == {"results_offset", "enriched_match_ids"}
AbsentState ==
  [kind |-> "absent", results_offset |-> 0, enriched_match_ids |-> {}, keys |-> {}]
TornState ==
  [kind |-> "torn", results_offset |-> 0, enriched_match_ids |-> {}, keys |-> {}]
JsonState(st) ==
  [kind |-> "json", results_offset |-> st.results_offset,
   enriched_match_ids |-> st.enriched_match_ids, keys |-> st.keys]

\* The results file can also hold bytes that are no UTF-8 text
\* ("undecodable") or a JSON document that is no array ("json_other").
AbsentResults == [kind |-> "absent", records |-> <<>>]
TornResults == [kind |-> "torn", records |-> <<>>]
UndecodableResults == [kind |-> "undecodable", records |-> <<>>]
OtherJsonResults == [kind |-> "json_other", records |-> <<>>]
JsonResults(rs) == [kind |-> "json", records |-> rs]

\* URLs handed to get_parsed_page.
ResultsUrl(off) == <<"results", off>>
MatchUrl(id) == <<"match", id>>
TeamsUrl == <<"teams", 0>>

\* ------------------------------------------------------------------- fetch
\* What the attempts of one call of get_parsed_page would meet, were they
\* made: TRUE for a response with status "ok".
Responses == [1..MAX_RETRIES -> BOOLEAN]

\* open(FAILED_URLS_FILE, "w") for "a": the log is overwritten.
log_failed_url_overwrites(log, url) == <<url>>

\* log_failed_url(url): the URL is appended as a line of the log.
log_failed_url(log, url) == Append(log, url)

\* The for loop of get_parsed_page from attempt `attempt` on: the page of the
\* first attempt that succeeds; after the last failed attempt the URL is
\* logged and None is returned.
RECURSIVE get_parsed_page_from(_, _, _, _)
get_parsed_page_from(attempt, url, responses, log) ==
  IF attempt > MAX_RETRIES
  THEN [page |-> FALSE, attempts |-> attempt - 1, log |-> log_failed_url(log, url)]
  ELSE IF responses[attempt]
  THEN [page |-> TRUE, attempts |-> attempt, log |-> log]
  ELSE get_parsed_page_from(attempt + 1, url, responses, log)

get_parsed_page(url, responses, log) == get_parsed_page_from(1, url, responses, log)

\* No call of get_parsed_page is under observation.
NoCall ==
  [url |-> TeamsUrl, responses |-> <<>>, attempts |-> 0, page |-> FALSE,
   before |-> <<>>]

VARIABLES
  STATE_FILE,            \* scrape_state.json
  RESULTS_FILE,          \* results.json
  FAILED_URLS_FILE,      \* failed_urls.json: the lines appended so far
  pc,                    \* where the process is; "idle": no process
  ret,                   \* what follows the file write under way: a stack of pcs
  runs,                  \* processes started so far
  expired,               \* time_exceeded() of the running process
  state,                 \* main's state dict
  all_results,           \* get_results' all_results = main's/enrich_results' results
  existing_ids,          \* get_results' existing_ids
  new_results,           \* get_results' new_results
  offset,                \* get_results' offset
  save_counter,          \* get_results' save_counter
  idx,                   \* enrich_results' loop position (1-based)
  enrichment_counter,    \* enrich_results' enrichment_counter
  TEAM_MAP_FOR_RESULTS,  \* whether the module-level team list is non-empty
  fetched,               \* the listing fetches of this run: <<offset, ok>>
  collectEnd,            \* how the loop of get_results was left in this run
  detail,                \* per record of this pass: what the pass did with it
  enrichEnd,             \* how the loop of enrich_results was left
  prevEnd,               \* collectEnd of the process before this one
  results_bound,         \* main's 'results' in locals(): get_results has returned
  prevReturned,          \* results_bound of the process before this one
  writeFailed,           \* the file writes of this run that failed, in order
  budget,                \* MAX_RUNTIME_SECONDS as configured for this process
  call,                  \* the call of get_parsed_page under observation
  deleted,               \* the file that was deleted between two runs
  page,                  \* get_results' page: the rows being processed
  team_fetches           \* the fetches of the team listing in this run

vars ==
  <<STATE_FILE, RESULTS_FILE, FAILED_URLS_FILE, pc, ret, runs, expired,
    state, all_results, existing_ids, new_results, offset, save_counter, idx,
    enrichment_counter, TEAM_MAP_FOR_RESULTS, fetched, collectEnd, detail,
    enrichEnd, prevEnd, results_bound, prevReturned, writeFailed,
    budget, call, deleted, page, team_fetches>>

files == <<STATE_FILE, RESULTS_FILE, FAILED_URLS_FILE>>
locals ==
  <<all_results, existing_ids, new_results, save_counter, idx,
    enrichment_counter>>
history == <<fetched, collectEnd, detail, enrichEnd>>
prev == <<prevEnd, prevReturned>>
\* What no step of a process changes.
outside == <<call, deleted>>
others == <<results_bound, writeFailed, budget, outside, page, team_fetches>>

\* ------------------------------------------------------------------- state
DefaultState ==
  [results_offset |-> 0, enriched_match_ids |-> {}, keys |-> StateKeys]

\* A load_state that ignores the file and starts from the defaults.
load_state_fresh(file) == DefaultState

\* load_state() on a file that exists and parses, or does not exist: the
\* object of the file, with enriched_match_ids set to {} when it has no such
\* key (setdefault, line 55).
load_state(file) ==
  IF file.kind = "absent" THEN DefaultState
  ELSE [results_offset |-> file.results_offset,
        enriched_match_ids |-> file.enriched_match_ids,
        keys |-> file.keys \cup {"enriched_match_ids"}]

\* load_existing_results() raises: reading a file that is no UTF-8 text raises
\* UnicodeDecodeError, which is neither of the two exceptions line 131 catches.
load_existing_results_raises(file) == file.kind = "undecodable"

\* load_existing_results() when it returns: the list in the file; [] when the
\* file is absent, does not parse or holds no list.
load_existing_results(file) ==
  IF file.kind = "json" THEN file.records ELSE <<>>

\* time.time() - START_TIME, read as one of two values: 0 for every reading
\* below the MAX_RUNTIME_SECONDS of the source, and that value from then on.
Elapsed == IF expired THEN MAX_RUNTIME_SECONDS ELSE 0

\* The comparison of line 43 with > for >=.
time_exceeded_strict == Elapsed > budget

\* Line 43.
time_exceeded == Elapsed >= budget

Entry(match_id) == [id |-> match_id, details |-> FALSE, enrich_failed |-> FALSE]

IdsOf(rs) == {rs[k].id : k \in 1..Len(rs)}

\* existing_ids = {r.get("match-id") for r in all_results if r.get("match-id")}
TruthyIds(rs) == {rs[k].id : k \in {j \in 1..Len(rs) : rs[j].id # 0}}

\* No process has run: nothing is held in memory and the failure log is empty.
InitMemory ==
  /\ FAILED_URLS_FILE = <<>>
  /\ pc = "idle"
  /\ ret = <<>>
  /\ runs = 0
  /\ expired = FALSE
  /\ state = DefaultState
  /\ all_results = <<>>
  /\ existing_ids = {}
  /\ new_results = <<>>
  /\ offset = 0
  /\ save_counter = 0
  /\ idx = 0
  /\ enrichment_counter = 0
  /\ TEAM_MAP_FOR_RESULTS = FALSE
  /\ fetched = <<>>
  /\ collectEnd = "none"
  /\ detail = <<>>
  /\ enrichEnd = "none"
  /\ prevEnd = "none"
  /\ results_bound = FALSE
  /\ prevReturned = FALSE
  /\ writeFailed = <<>>
  /\ budget = MAX_RUNTIME_SECONDS
  /\ call = NoCall
  /\ deleted = "none"
  /\ page = <<>>
  /\ team_fetches = 0

Init ==
  /\ STATE_FILE = AbsentState
  /\ RESULTS_FILE = AbsentResults
  /\ InitMemory

\* ------------------------------------------------------------------ memory
\* The process is gone: nothing is held in memory, and what was observed of
\* its run is dropped, except how its collection loop had ended.
NoProcess ==
  /\ state' = DefaultState
  /\ all_results' = <<>>
  /\ existing_ids' = {}
  /\ new_results' = <<>>
  /\ save_counter' = 0
  /\ idx' = 0
  /\ enrichment_counter' = 0
  /\ TEAM_MAP_FOR_RESULTS' = FALSE
  /\ expired' = FALSE
  /\ ret' = <<>>
  /\ offset' = 0
  /\ fetched' = <<>>
  /\ collectEnd' = "none"
  /\ detail' = <<>>
  /\ enrichEnd' = "none"
  /\ prevEnd' = collectEnd
  /\ results_bound' = FALSE
  /\ prevReturned' = results_bound
  /\ writeFailed' = <<>>
  /\ budget' = MAX_RUNTIME_SECONDS
  /\ page' = <<>>
  /\ team_fetches' = 0
  /\ UNCHANGED outside

\* ------------------------------------------------------------ file writes
\* save_state(state): open(STATE_FILE, "w") truncates the file ...
SaveStateOpen ==
  /\ pc = "ss_open"
  /\ STATE_FILE' = TornState
  /\ pc' = "ss_dump"
  /\ UNCHANGED <<RESULTS_FILE, FAILED_URLS_FILE, ret, runs, expired, state,
                 locals, offset, TEAM_MAP_FOR_RESULTS, history, prev, others>>

\* ... and json.dump followed by the close completes it.
SaveStateDump ==
  /\ pc = "ss_dump"
  /\ STATE_FILE' = JsonState(state)
  /\ pc' = Head(ret)
  /\ ret' = Tail(ret)
  /\ UNCHANGED <<RESULTS_FILE, FAILED_URLS_FILE, runs, expired, state,
                 locals, offset, TEAM_MAP_FOR_RESULTS, history, prev, others>>

\* save_results_incremental(results): the same two steps on RESULTS_FILE.  The
\* text is written with ensure_ascii=False, so what is on disk before the
\* write completes can end inside a multi-byte character.
SaveResultsOpen ==
  /\ pc = "sr_open"
  /\ RESULTS_FILE' \in {TornResults, UndecodableResults}
  /\ pc' = "sr_dump"
  /\ UNCHANGED <<STATE_FILE, FAILED_URLS_FILE, ret, runs, expired, state,
                 locals, offset, TEAM_MAP_FOR_RESULTS, history, prev, others>>

SaveResultsDump ==
  /\ pc = "sr_dump"
  /\ RESULTS_FILE' = JsonResults(all_results)
  /\ pc' = Head(ret)
  /\ ret' = Tail(ret)
  /\ UNCHANGED <<STATE_FILE, FAILED_URLS_FILE, runs, expired, state,
                 locals, offset, TEAM_MAP_FOR_RESULTS, history, prev, others>>

\* -------------------------------------------------------------------- main
\* The process starts: START_TIME is taken, and main() runs up to the try:
\* load_state() and the log line.
MainBegin ==
  /\ pc = "idle"
  /\ runs < MaxRuns
  /\ STATE_FILE.kind # "torn"
  /\ "results_offset" \in load_state(STATE_FILE).keys
  /\ runs' = runs + 1
  /\ state' = load_state(STATE_FILE)
  /\ pc' = "get_results"
  /\ UNCHANGED <<files, ret, expired, locals, offset, TEAM_MAP_FOR_RESULTS,
                 history, prev, results_bound, writeFailed, outside, page, team_fetches>>

\* The program as it is configured (line 15).
MainStart ==
  /\ budget' = MAX_RUNTIME_SECONDS
  /\ MainBegin

\* The program configured with a time budget of 0.
MainStartZeroBudget ==
  /\ budget' = 0
  /\ MainBegin

\* json.load raises on a torn STATE_FILE; load_state is called outside main's
\* try, so the process ends with the error.
MainLoadFails ==
  /\ pc = "idle"
  /\ runs < MaxRuns
  /\ STATE_FILE.kind = "torn"
  /\ runs' = runs + 1
  /\ UNCHANGED <<files, pc, ret, expired, state, locals, offset,
                 TEAM_MAP_FOR_RESULTS, history, prev, others>>

\* The checkpoint parses and has no "results_offset": state['results_offset']
\* in the log line of line 450 raises KeyError, outside main's try, and the
\* process ends with the error.
MainKeyError ==
  /\ pc = "idle"
  /\ runs < MaxRuns
  /\ STATE_FILE.kind # "torn"
  /\ "results_offset" \notin load_state(STATE_FILE).keys
  /\ runs' = runs + 1
  /\ UNCHANGED <<files, pc, ret, expired, state, locals, offset,
                 TEAM_MAP_FOR_RESULTS, history, prev, others>>

\* The clock passes START_TIME + MAX_RUNTIME_SECONDS.  The clock is read at the
\* two loop heads only, so it is enough to let the time run out right before
\* one of them reads it.
Tick ==
  /\ pc \in {"loop", "enrich"}
  /\ ~expired
  /\ expired' = TRUE
  /\ UNCHANGED <<files, pc, ret, runs, state, locals, offset,
                 TEAM_MAP_FOR_RESULTS, history, prev, others>>

\* The process is killed: memory is lost, the files stay as they are.
Kill ==
  /\ pc # "idle"
  /\ pc' = "idle"
  /\ NoProcess
  /\ UNCHANGED <<files, runs>>

\* ------------------------------------------------------------- get_results
\* The loop test of get_results.
LoopContinues(off, exceeded) == off <= MAX_RESULTS_OFFSET /\ ~exceeded

\* The rows of one page with the newest entry put first.
RECURSIVE ExtractPageNewestFirst(_, _, _)
ExtractPageNewestFirst(raw, seen, page_results) ==
  IF raw = <<>> THEN [page_results |-> page_results, existing_ids |-> seen]
  ELSE LET match_id == to_int(Head(raw))
       IN IF match_id \in seen
          THEN ExtractPageNewestFirst(Tail(raw), seen, page_results)
          ELSE ExtractPageNewestFirst(Tail(raw), seen \cup {match_id},
                                      <<Entry(match_id)>> \o page_results)

\* The rows of one page in page order: a row whose match id is in existing_ids
\* is skipped, any other becomes an entry and its id joins existing_ids.
RECURSIVE ExtractPage(_, _, _)
ExtractPage(raw, seen, page_results) ==
  IF raw = <<>> THEN [page_results |-> page_results, existing_ids |-> seen]
  ELSE LET match_id == to_int(Head(raw))
       IN IF match_id \in seen
          THEN ExtractPage(Tail(raw), seen, page_results)
          ELSE ExtractPage(Tail(raw), seen \cup {match_id},
                           Append(page_results, Entry(match_id)))

\* _findTeamId is called twice for each new row with two team cells, and each
\* call runs _get_all_teams, which fetches the team listing while the list is
\* empty (line 94), whatever the fetches made before it (`fetches`) in this
\* run.  Of `lookups` calls in a row this gives every way they can go: how many
\* fetches were made, how many of them failed (each one a line of the
\* failure log) and whether the list ended non-empty.  A fetch can also
\* succeed and list no team; the one that loads the list is the last.
TeamLookupRuns(lookups, nonEmpty, fetches) ==
  IF nonEmpty \/ lookups = 0
  THEN {[fails |-> 0, fetches |-> 0, loaded |-> nonEmpty]}
  ELSE {[fails |-> f, fetches |-> lookups, loaded |-> FALSE] : f \in 0..lookups}
       \cup {r \in [fails : 0..lookups, fetches : 1..lookups, loaded : {TRUE}] :
               r.fails < r.fetches}

RECURSIVE Repeat(_, _)
Repeat(x, n) == IF n = 0 THEN <<>> ELSE <<x>> \o Repeat(x, n - 1)

\* The in-loop save: every 500 new results or every 10 pages.
IncrementalSaveDue(new, pages) ==
  Len(new) >= SAVE_EVERY_RESULTS \/ pages >= SAVE_EVERY_PAGES

\* An offset that is not advanced.
NextOffsetStays(off) == off

\* Line 226: offset += 100
NextOffset(off) == off + PAGE_STRIDE

\* Lines 150-157.
GetResultsBegin ==
  /\ pc = "get_results"
  /\ ~load_existing_results_raises(RESULTS_FILE)
  /\ all_results' = load_existing_results(RESULTS_FILE)
  /\ existing_ids' = TruthyIds(load_existing_results(RESULTS_FILE))
  /\ new_results' = <<>>
  /\ offset' = state.results_offset
  /\ save_counter' = 0
  /\ pc' = "loop"
  /\ UNCHANGED <<files, ret, runs, expired, state, idx, enrichment_counter,
                 TEAM_MAP_FOR_RESULTS, history, prev, others>>

\* Line 150 raises: the error leaves get_results and reaches the except
\* Exception clause of main.
GetResultsLoadRaises ==
  /\ pc = "get_results"
  /\ load_existing_results_raises(RESULTS_FILE)
  /\ pc' = "ss_open"
  /\ ret' = <<"failed">>
  /\ UNCHANGED <<files, runs, expired, state, locals, offset,
                 TEAM_MAP_FOR_RESULTS, history, prev, others>>

\* The loop test fails: the window is exhausted or the time is up.
LoopExit ==
  /\ pc = "loop"
  /\ ~LoopContinues(offset, time_exceeded)
  /\ collectEnd' = IF offset > MAX_RESULTS_OFFSET THEN "Exhausted" ELSE "TimeExpired"
  /\ pc' = "final_save"
  /\ UNCHANGED <<files, ret, runs, expired, state, locals, offset,
                 TEAM_MAP_FOR_RESULTS, fetched, detail, enrichEnd, prev, others>>

\* get_parsed_page returns None for the listing page: it has logged the URL;
\* the loop is left by break.
PageFetchFails ==
  /\ pc = "loop"
  /\ LoopContinues(offset, time_exceeded)
  /\ Len(FAILED_URLS_FILE) < MaxFailures
  /\ \E responses \in Responses :
       LET r == get_parsed_page(ResultsUrl(offset), responses, FAILED_URLS_FILE)
       IN ~r.page /\ FAILED_URLS_FILE' = r.log
  /\ fetched' = Append(fetched, <<offset, FALSE>>)
  /\ collectEnd' = "FetchFailed"
  /\ pc' = "final_save"
  /\ UNCHANGED <<STATE_FILE, RESULTS_FILE, ret, runs, expired, state, locals,
                 offset, TEAM_MAP_FOR_RESULTS, detail, enrichEnd, prev, others>>

\* The listing page is fetched and its rows are processed (lines 161-223).
PageFetched ==
  /\ pc = "loop"
  /\ LoopContinues(offset, time_exceeded)
  /\ \E responses \in Responses :
       get_parsed_page(ResultsUrl(offset), responses, FAILED_URLS_FILE).page
  /\ \E raw \in PageContents :
       LET ex == ExtractPage(raw, existing_ids, <<>>)
           new == new_results \o ex.page_results
       IN /\ \E withTeams \in 0..Len(ex.page_results) :
               \E t \in TeamLookupRuns(2 * withTeams, TEAM_MAP_FOR_RESULTS,
                                       team_fetches) :
                 /\ Len(FAILED_URLS_FILE) + t.fails <= MaxFailures
                 /\ team_fetches + t.fetches <= MaxTeamFetches
                 /\ team_fetches' = team_fetches + t.fetches
                 /\ FAILED_URLS_FILE' = FAILED_URLS_FILE \o Repeat(TeamsUrl, t.fails)
                 /\ TEAM_MAP_FOR_RESULTS' = t.loaded
          /\ page' = raw
          /\ new_results' = new
          /\ all_results' = all_results \o ex.page_results
          /\ existing_ids' = ex.existing_ids
          /\ IF IncrementalSaveDue(new, save_counter + 1)
             THEN /\ save_counter' = 0
                  /\ pc' = "sr_open"
                  /\ ret' = <<"advance">>
             ELSE /\ save_counter' = save_counter + 1
                  /\ pc' = "advance"
                  /\ ret' = ret
  /\ fetched' = Append(fetched, <<offset, TRUE>>)
  /\ UNCHANGED <<STATE_FILE, RESULTS_FILE, runs, expired, state, offset, idx,
                 enrichment_counter, collectEnd, detail, enrichEnd, prev,
                 results_bound, writeFailed, budget, outside>>

\* Lines 226-228: the cursor is advanced and the checkpoint saved.  The page is
\* not read again.
Advance ==
  /\ pc = "advance"
  /\ page' = <<>>
  /\ offset' = NextOffset(offset)
  /\ state' = [state EXCEPT !.results_offset = NextOffset(offset)]
  /\ pc' = "ss_open"
  /\ ret' = <<"loop">>
  /\ UNCHANGED <<files, runs, expired, locals, TEAM_MAP_FOR_RESULTS, history,
                 prev, results_bound, writeFailed, budget, outside,
                 team_fetches>>

\* Lines 232-234: the final save, made when this run found a new result.
FinalSave ==
  /\ pc = "final_save"
  /\ IF new_results # <<>>
     THEN pc' = "sr_open" /\ ret' = <<"check_limit">>
     ELSE pc' = "check_limit" /\ ret' = ret
  /\ UNCHANGED <<files, runs, expired, state, locals, offset,
                 TEAM_MAP_FOR_RESULTS, history, prev, others>>

\* The test of line 237 with >= for >.
LimitReachedOffByOne(off) == off >= MAX_RESULTS_OFFSET

\* Line 237: the window is exhausted.
LimitReached(off) == off > MAX_RESULTS_OFFSET

\* A reset that leaves the cursor where it is.
ResetOffsetKeeps(st) == st

\* Line 240: state["results_offset"] = 0
ResetOffset(st) == [st EXCEPT !.results_offset = 0]

\* Lines 237-242: past the window the cursor is reset and the checkpoint saved.
CheckLimit ==
  /\ pc = "check_limit"
  /\ IF LimitReached(offset)
     THEN /\ state' = ResetOffset(state)
          /\ pc' = "ss_open"
          /\ ret' = <<"return">>
     ELSE /\ state' = state
          /\ pc' = "return"
          /\ ret' = ret
  /\ UNCHANGED <<files, runs, expired, locals, offset, TEAM_MAP_FOR_RESULTS,
                 history, prev, others>>

\* Line 244 and main's line 454: get_results returns all_results and main
\* binds it to `results`; lines 386-387, the first of enrich_results.
GetResultsReturn ==
  /\ pc = "return"
  /\ results_bound' = TRUE
  /\ UNCHANGED <<writeFailed, budget, outside, page, team_fetches>>
  /\ idx' = 1
  /\ enrichment_counter' = 0
  /\ detail' = [k \in 1..Len(all_results) |-> "none"]
  /\ pc' = "enrich"
  /\ UNCHANGED <<files, ret, runs, expired, state, all_results, existing_ids,
                 new_results, offset, save_counter, TEAM_MAP_FOR_RESULTS, fetched,
                 collectEnd, enrichEnd, prev>>

\* ---------------------------------------------------------- enrich_results
\* Lines 394-396: a record is passed over when the checkpoint marks its id.
AlreadyEnriched(match, enriched_ids) == match.id \in enriched_ids

\* A failure branch that leaves the record as it was.
MarkFailedForgets(match) == match

\* match["enrich_failed"] = True
MarkFailed(match) == [match EXCEPT !.enrich_failed = TRUE]

\* match.update(match_details) and the players of each map.
MergeDetails(match) == [match EXCEPT !.details = TRUE]

\* enriched_ids[match_id] = True
MarkEnriched(enriched_ids, match) == enriched_ids \cup {match.id}

\* What follows a successful enrichment: every 50th one saves the checkpoint
\* and the results, and every one then saves the checkpoint (line 432).
AfterEnrichment(counter) ==
  IF counter % SAVE_EVERY_ENRICHMENTS = 0
  THEN <<"ss_open", "sr_open", "ss_open", "enrich">>
  ELSE <<"ss_open", "enrich">>

\* The head of the for loop: the end of the list, the time check, the skip.
EnrichNext ==
  /\ pc = "enrich"
  /\ IF idx > Len(all_results)
     THEN /\ enrichEnd' = "exhausted"
          /\ pc' = "enrich_end"
          /\ UNCHANGED <<idx, detail>>
     ELSE IF time_exceeded
     THEN /\ enrichEnd' = "time"
          /\ pc' = "enrich_end"
          /\ UNCHANGED <<idx, detail>>
     ELSE IF AlreadyEnriched(all_results[idx], state.enriched_match_ids)
     THEN /\ idx' = idx + 1
          /\ detail' = [detail EXCEPT ![idx] = "skipped"]
          /\ UNCHANGED <<pc, enrichEnd>>
     ELSE /\ pc' = "enrich_fetch"
          /\ UNCHANGED <<idx, detail, enrichEnd>>
  /\ UNCHANGED <<files, ret, runs, expired, state, all_results, existing_ids,
                 new_results, offset, save_counter, enrichment_counter,
                 TEAM_MAP_FOR_RESULTS, fetched, collectEnd, prev, others>>

\* Lines 400-404: get_parsed_page(match["url"]) returns None.
DetailFetchFails ==
  /\ pc = "enrich_fetch"
  /\ Len(FAILED_URLS_FILE) < MaxFailures
  /\ \E responses \in Responses :
       LET r == get_parsed_page(MatchUrl(all_results[idx].id), responses,
                                FAILED_URLS_FILE)
       IN ~r.page /\ FAILED_URLS_FILE' = r.log
  /\ all_results' = [all_results EXCEPT ![idx] = MarkFailed(@)]
  /\ detail' = [detail EXCEPT ![idx] = "fetch_failed"]
  /\ idx' = idx + 1
  /\ pc' = "ss_open"
  /\ ret' = <<"enrich">>
  /\ UNCHANGED <<STATE_FILE, RESULTS_FILE, runs, expired, state, existing_ids,
                 new_results, offset, save_counter, enrichment_counter,
                 TEAM_MAP_FOR_RESULTS, fetched, collectEnd, enrichEnd, prev, others>>

\* Lines 406-432, parse_match_details raises or returns None (match.update(None)
\* raises): the except branch flags the record.
DetailParseFails ==
  /\ pc = "enrich_fetch"
  /\ \E responses \in Responses :
       get_parsed_page(MatchUrl(all_results[idx].id), responses,
                       FAILED_URLS_FILE).page
  /\ all_results' = [all_results EXCEPT ![idx] = MarkFailed(@)]
  /\ detail' = [detail EXCEPT ![idx] = "parse_failed"]
  /\ idx' = idx + 1
  /\ pc' = "ss_open"
  /\ ret' = <<"enrich">>
  /\ UNCHANGED <<files, runs, expired, state, existing_ids, new_results, offset,
                 save_counter, enrichment_counter, TEAM_MAP_FOR_RESULTS, fetched,
                 collectEnd, enrichEnd, prev, others>>

\* Lines 406-432, the page is fetched and parsed.
DetailEnriched ==
  /\ pc = "enrich_fetch"
  /\ \E responses \in Responses :
       get_parsed_page(MatchUrl(all_results[idx].id), responses,
                       FAILED_URLS_FILE).page
  /\ all_results' = [all_results EXCEPT ![idx] = MergeDetails(@)]
  /\ state' = [state EXCEPT
                 !.enriched_match_ids = MarkEnriched(@, all_results[idx])]
  /\ enrichment_counter' = enrichment_counter + 1
  /\ detail' = [detail EXCEPT ![idx] = "enriched"]
  /\ idx' = idx + 1
  /\ pc' = Head(AfterEnrichment(enrichment_counter + 1))
  /\ ret' = Tail(AfterEnrichment(enrichment_counter + 1))
  /\ UNCHANGED <<files, runs, expired, existing_ids, new_results, offset,
                 save_counter, TEAM_MAP_FOR_RESULTS, fetched, collectEnd, enrichEnd, prev, others>>

\* Lines 436-440: the save at the end of the pass.
EnrichEnd ==
  /\ pc = "enrich_end"
  /\ IF enrichment_counter > 0
     THEN pc' = "sr_open" /\ ret' = <<"main_final">>
     ELSE pc' = "main_final" /\ ret' = ret
  /\ UNCHANGED <<files, runs, expired, state, locals, offset,
                 TEAM_MAP_FOR_RESULTS, history, prev, others>>

\* --------------------------------------------------------------- main, end
\* Lines 461-466: the results are saved when there are any, then the state.
MainFinal ==
  /\ pc = "main_final"
  /\ IF all_results # <<>>
     THEN pc' = "sr_open" /\ ret' = <<"ss_open", "done">>
     ELSE pc' = "ss_open" /\ ret' = <<"done">>
  /\ UNCHANGED <<files, runs, expired, state, locals, offset,
                 TEAM_MAP_FOR_RESULTS, history, prev, others>>

\* "Run completed successfully": the process ends.
MainDone ==
  /\ pc = "done"
  /\ pc' = "idle"
  /\ NoProcess
  /\ UNCHANGED <<files, runs>>

\* ------------------------------------------------------- main, the handlers
\* One of main's two except clauses is running: it ends at "interrupted" or at
\* "failed".
InHandler ==
  \/ pc \in {"interrupted", "failed"}
  \/ ret # <<>> /\ ret[Len(ret)] \in {"interrupted", "failed"}

\* Lines 472-475 and 479-482: save_state(state), then
\* save_results_incremental(results) if main's `results` is bound and
\* non-empty; as the pcs that follow, ending at `last`.
HandlerSaves(last) ==
  IF results_bound /\ all_results # <<>>
  THEN <<"ss_open", "sr_open", last>>
  ELSE <<"ss_open", last>>

\* KeyboardInterrupt arrives inside main's try (lines 452-467): no except
\* Exception clause on the way catches it, a write under way is abandoned, and
\* the clause of line 469 runs.
Interrupt ==
  /\ pc # "idle"
  /\ ~InHandler
  /\ pc' = Head(HandlerSaves("interrupted"))
  /\ ret' = Tail(HandlerSaves("interrupted"))
  /\ page' = <<>>
  /\ UNCHANGED <<files, runs, expired, state, locals, offset,
                 TEAM_MAP_FOR_RESULTS, history, prev, results_bound,
                 writeFailed, budget, outside, team_fetches>>

\* save_results_incremental fails: open raises and the file is as it was, or
\* json.dump raises and the file stays half-written.  The except clause of line
\* 142 logs the error and returns False, which no caller acts on (line 223:
\* "continuing anyway"; lines 233, 425, 437, 462, 474, 481 ignore it).
SaveResultsFails ==
  /\ pc \in {"sr_open", "sr_dump"}
  /\ Len(writeFailed) < MaxWriteFailures
  /\ writeFailed' = Append(writeFailed, "results")
  /\ pc' = Head(ret)
  /\ ret' = Tail(ret)
  /\ UNCHANGED <<files, runs, expired, state, locals, offset,
                 TEAM_MAP_FOR_RESULTS, history, prev, results_bound,
                 budget, outside, page, team_fetches>>

\* save_state fails the same way; it catches nothing.  Inside main's try the
\* error reaches the except Exception clause of line 476, which saves again
\* and re-raises; raised by a save of one of the two except clauses it ends the
\* process at once.
SaveStateFails ==
  /\ pc \in {"ss_open", "ss_dump"}
  /\ Len(writeFailed) < MaxWriteFailures
  /\ IF InHandler
     THEN /\ pc' = "idle"
          /\ NoProcess
          /\ UNCHANGED <<files, runs>>
     ELSE /\ writeFailed' = Append(writeFailed, "state")
          /\ pc' = Head(HandlerSaves("failed"))
          /\ ret' = Tail(HandlerSaves("failed"))
          /\ UNCHANGED <<files, runs, expired, state, locals, offset,
                         TEAM_MAP_FOR_RESULTS, history, prev, results_bound,
                 budget, outside, page, team_fetches>>

\* Line 483: the except Exception clause re-raises and the process ends with
\* the error.
MainFailed ==
  /\ pc = "failed"
  /\ pc' = "idle"
  /\ NoProcess
  /\ UNCHANGED <<files, runs>>

\* "Saved data before exit": main returns and the process ends.
MainInterrupted ==
  /\ pc = "interrupted"
  /\ pc' = "idle"
  /\ NoProcess
  /\ UNCHANGED <<files, runs>>

Next ==
  \/ MainStart
  \/ MainLoadFails
  \/ Tick
  \/ Kill
  \/ GetResultsBegin
  \/ LoopExit
  \/ PageFetchFails
  \/ PageFetched
  \/ Advance
  \/ FinalSave
  \/ CheckLimit
  \/ GetResultsReturn
  \/ EnrichNext
  \/ DetailFetchFails
  \/ DetailParseFails
  \/ DetailEnriched
  \/ EnrichEnd
  \/ MainFinal
  \/ MainDone
  \/ SaveStateOpen
  \/ SaveStateDump
  \/ SaveResultsOpen
  \/ SaveResultsDump
  \/ Interrupt
  \/ MainInterrupted
  \/ SaveResultsFails
  \/ SaveStateFails
  \/ MainFailed
  \/ GetResultsLoadRaises

Spec == Init /\ [][Next]_vars

\* The program where each process is started with the configured time budget
\* or with a budget of 0.
NextAnyBudget == Next \/ MainStartZeroBudget

SpecAnyBudget == Init /\ [][NextAnyBudget]_vars

\* ------------------------------------------------ deleting a persisted file
\* Between two runs one of the two JSON files is deleted by hand, once.
DeleteResultsFile ==
  /\ pc = "idle"
  /\ deleted = "none"
  /\ RESULTS_FILE.kind # "absent"
  /\ RESULTS_FILE' = AbsentResults
  /\ deleted' = "results"
  /\ UNCHANGED <<STATE_FILE, FAILED_URLS_FILE, pc, ret, runs, expired, state,
                 locals, offset, TEAM_MAP_FOR_RESULTS, history, prev,
                 results_bound, writeFailed, budget, call, page, team_fetches>>

DeleteStateFile ==
  /\ pc = "idle"
  /\ deleted = "none"
  /\ STATE_FILE.kind # "absent"
  /\ STATE_FILE' = AbsentState
  /\ deleted' = "state"
  /\ UNCHANGED <<RESULTS_FILE, FAILED_URLS_FILE, pc, ret, runs, expired, state,
                 locals, offset, TEAM_MAP_FOR_RESULTS, history, prev,
                 results_bound, writeFailed, budget, call, page, team_fetches>>

NextWithDeletion == Next \/ DeleteResultsFile \/ DeleteStateFile

SpecWithDeletion == Init /\ [][NextWithDeletion]_vars

\* ------------------------------------------------- loading arbitrary files
\* The two loaders applied to files the program did not write itself: the
\* start of a run, up to the head of the loop of get_results, from any
\* checkpoint file and any results file.
OffsetsInFile == {0, PAGE_STRIDE}
KeysInFile == StateKeys \cup {"other"}

CheckpointFiles ==
  {AbsentState, TornState}
  \cup {f \in [kind : {"json"}, results_offset : OffsetsInFile,
               enriched_match_ids : SUBSET MatchIds, keys : SUBSET KeysInFile] :
         /\ "results_offset" \notin f.keys => f.results_offset = 0
         /\ "enriched_match_ids" \notin f.keys => f.enriched_match_ids = {}}

RecordsInFile ==
  {<<>>} \cup {<<[id |-> i, details |-> d, enrich_failed |-> e]>> :
                 i \in MatchIds, d \in BOOLEAN, e \in BOOLEAN}

ResultsFiles ==
  {AbsentResults, TornResults, UndecodableResults, OtherJsonResults}
  \cup {JsonResults(rs) : rs \in RecordsInFile}

InitAnyFiles ==
  /\ STATE_FILE \in CheckpointFiles
  /\ RESULTS_FILE \in ResultsFiles
  /\ InitMemory

NextLoad ==
  \/ MainStart
  \/ MainLoadFails
  \/ MainKeyError
  \/ GetResultsBegin
  \/ GetResultsLoadRaises
  \/ SaveStateOpen
  \/ SaveStateDump
  \/ MainFailed

SpecLoad == InitAnyFiles /\ [][NextLoad]_vars

\* --------------------------------------------------- get_parsed_page alone
\* Calls of get_parsed_page, one after the other, for any URL and any
\* responses, while the log has fewer than MaxLogLen lines.
MaxLogLen == 2

FetchUrls ==
  {ResultsUrl(o) : o \in {0, PAGE_STRIDE}} \cup {MatchUrl(i) : i \in MatchIds}
  \cup {TeamsUrl}

GetParsedPageCall ==
  /\ pc = "idle"
  /\ Len(FAILED_URLS_FILE) < MaxLogLen
  /\ \E url \in FetchUrls, responses \in Responses :
       LET r == get_parsed_page(url, responses, FAILED_URLS_FILE)
       IN /\ call' = [url |-> url, responses |-> responses,
                      attempts |-> r.attempts, page |-> r.page,
                      before |-> FAILED_URLS_FILE]
          /\ FAILED_URLS_FILE' = r.log
  /\ UNCHANGED <<STATE_FILE, RESULTS_FILE, pc, ret, runs, expired, state, locals,
                 offset, TEAM_MAP_FOR_RESULTS, history, prev, results_bound,
                 writeFailed, budget, deleted, page, team_fetches>>

SpecFetch == Init /\ [][GetParsedPageCall]_vars

\* ------------------------------------------------ the collection phase alone
\* One run of get_results, up to its return, from a checkpoint file holding any
\* cursor from 0 to MaxStartCursor, with any behaviour of the fetch and of the
\* clock.  The process is not stopped from outside and no write fails, and
\* it takes its next step as long as it has one.
MaxStartCursor == 201

StartCursors == 0..MaxStartCursor

InitAnyCursor ==
  /\ STATE_FILE \in
       {JsonState([results_offset |-> c, enriched_match_ids |-> {},
                   keys |-> StateKeys]) : c \in StartCursors}
  /\ RESULTS_FILE = AbsentResults
  /\ InitMemory

CollectStep ==
  \/ GetResultsBegin
  \/ LoopExit
  \/ PageFetchFails
  \/ PageFetched
  \/ Advance
  \/ FinalSave
  \/ CheckLimit
  \/ SaveStateOpen
  \/ SaveStateDump
  \/ SaveResultsOpen
  \/ SaveResultsDump

NextCollect == MainStart \/ Tick \/ CollectStep

SpecCollect == InitAnyCursor /\ [][NextCollect]_vars /\ WF_vars(CollectStep)

\* ================================================================== claims
NoDuplicates(rs) == \A j, k \in 1..Len(rs) : j # k => rs[j].id # rs[k].id

PersistedResults == load_existing_results(RESULTS_FILE)

\* The cursor the checkpoint file holds; 0 when there is no file.
PersistedCursor == IF STATE_FILE.kind = "json" THEN STATE_FILE.results_offset ELSE 0

\* The records all_results held when get_results loaded it.
LoadedCount == Len(all_results) - Len(new_results)

\* C1: starting from an empty results file, whatever the pages return, every
\* match id appears at most once in the result set in memory and in the result
\* set written to the results file.
C1_NoDuplicateMatchIds ==
  /\ NoDuplicates(all_results)
  /\ NoDuplicates(PersistedResults)

\* C2: whenever the checkpoint file holds a cursor past the page fetched last,
\* the results file holds the new records this run found (killing the process
\* between pages then loses no fetched page).
C2_ResultsDurableBeforeCursor ==
  (/\ pc # "idle"
   /\ fetched # <<>>
   /\ STATE_FILE.kind = "json"
   /\ STATE_FILE.results_offset > fetched[Len(fetched)][1])
  => IdsOf(new_results) \subseteq IdsOf(PersistedResults)

\* C3: at every point where the process may be killed, every match id the
\* persisted checkpoint marks enriched is the id of a record in the persisted
\* result set, and every persisted record has a match id.
C3_EnrichedIdsArePersistedRecords ==
  /\ STATE_FILE.kind = "json" =>
       STATE_FILE.enriched_match_ids \subseteq IdsOf(PersistedResults)
  /\ \A k \in 1..Len(PersistedResults) : PersistedResults[k].id \in MatchIds

\* C4: the results file is at every moment a complete snapshot: no step, an
\* interrupted flush included, removes from what load_existing_results returns
\* a record that an earlier completed flush wrote.
C4_FlushNeverLosesRecords ==
  [][IdsOf(load_existing_results(RESULTS_FILE))
       \subseteq IdsOf(load_existing_results(RESULTS_FILE'))]_vars

\* C5: save_state is atomic: at every moment the checkpoint file holds a
\* complete checkpoint (the previous one or the new one), never a half-written
\* one.
C5_CheckpointNeverHalfWritten == STATE_FILE.kind # "torn"

\* C6: a collection run adds no record for a match id that the result set it
\* loaded already holds: with no new upstream data the run yields zero new
\* records.
C6_NoNewRecordForKnownId ==
  \A k \in 1..Len(all_results) :
    k > LoadedCount =>
      \A j \in 1..Len(all_results) : j <= LoadedCount => all_results[j].id # all_results[k].id

\* C7: when the enrichment pass has run through all records, every record was
\* reached; one whose detail fetch failed is flagged enrich_failed; one whose
\* detail fetch and parse succeeded is marked enriched in the checkpoint, in
\* memory and, when the pass ends, in the checkpoint file.
C7_EnrichmentIsolation ==
  enrichEnd = "exhausted" =>
    \A k \in 1..Len(all_results) :
      /\ detail[k] # "none"
      /\ detail[k] = "fetch_failed" => all_results[k].enrich_failed
      /\ detail[k] \in {"enriched", "skipped"} =>
           all_results[k].id \in state.enriched_match_ids
      /\ (detail[k] = "enriched" /\ pc = "enrich_end") =>
           /\ STATE_FILE.kind = "json"
           /\ all_results[k].id \in STATE_FILE.enriched_match_ids

\* A pass in which a detail fetch failed and a later record was enriched.
C7_Witness ==
  /\ pc = "enrich_end"
  /\ enrichEnd = "exhausted"
  /\ \E j, k \in 1..Len(all_results) :
       j < k /\ detail[j] = "fetch_failed" /\ detail[k] = "enriched"

\* C8: the enrichment pass fetches the detail page only of a record that is
\* neither marked enriched nor flagged enrich_failed.
C8_FetchOnlyUnflagged ==
  pc = "enrich_fetch" =>
    /\ all_results[idx].id \notin state.enriched_match_ids
    /\ ~all_results[idx].enrich_failed

\* C9: after the page fetch at cursor c failed, that fetch is the last page
\* fetch of the run, the cursor in memory and in the checkpoint file is c, and
\* the run goes on to the final save and the enrichment pass over the records
\* collected so far.
C9_FetchFailedStopsCollection ==
  collectEnd = "FetchFailed" =>
    /\ fetched # <<>>
    /\ ~fetched[Len(fetched)][2]
    /\ offset = fetched[Len(fetched)][1]
    /\ state.results_offset = offset
    /\ STATE_FILE.kind # "torn" => PersistedCursor = offset
    /\ pc \notin {"idle", "get_results", "loop", "advance"}
    /\ pc \in {"enrich", "enrich_fetch", "enrich_end"} =>
         /\ DOMAIN detail = 1..Len(all_results)
         /\ LoadedCount >= 0
         /\ SubSeq(all_results, LoadedCount + 1, Len(all_results)) =
              [k \in 1..Len(new_results) |->
                 [new_results[k] EXCEPT
                    !.details = all_results[LoadedCount + k].details,
                    !.enrich_failed = all_results[LoadedCount + k].enrich_failed]]

\* The fetch of the second page failed and the pass fetches a detail page.
C9_Witness ==
  /\ collectEnd = "FetchFailed"
  /\ offset = PAGE_STRIDE
  /\ new_results # <<>>
  /\ pc = "enrich_fetch"

\* The pages fetched so far in this run are the ones from `first` on, in order.
FetchedFrom(first) ==
  \A k \in 1..Len(fetched) :
    fetched[k] = <<first + (k - 1) * PAGE_STRIDE, TRUE>>

\* C10: when the loop of get_results is left because the time is up, no
\* further page is fetched and the cursor, in memory and in the checkpoint
\* file, is the offset of the first page not fetched; and the first page fetch
\* of a run is at the cursor the checkpoint file holds.
C10_TimeExpiredKeepsCursor ==
  collectEnd = "TimeExpired" =>
    /\ offset <= MAX_RESULTS_OFFSET
    /\ FetchedFrom(offset - Len(fetched) * PAGE_STRIDE)
    /\ state.results_offset = offset
    /\ STATE_FILE.kind # "torn" => PersistedCursor = offset
    /\ pc \notin {"idle", "get_results", "loop", "advance"}

C10_FirstFetchAtPersistedCursor ==
  (pc = "loop" /\ fetched = <<>> /\ fetched' # <<>>) =>
    fetched'[1][1] = PersistedCursor

C10_TimeExpiredResumes ==
  /\ []C10_TimeExpiredKeepsCursor
  /\ [][C10_FirstFetchAtPersistedCursor]_vars

\* The run after one that ran out of time after the first page has fetched
\* its first page, the second one.
C10_Witness ==
  /\ prevEnd = "TimeExpired"
  /\ fetched = <<<<PAGE_STRIDE, TRUE>>>>
  /\ pc = "advance"

\* C11: when the cursor has been advanced past MAX_RESULTS_OFFSET, get_results
\* returns with the cursor reset to 0 in memory and in the checkpoint file, the
\* file keeps cursor 0 for the rest of the run, and the first page fetch of the
\* next run is at offset 0.
C11_ReturnsWithCursorReset ==
  offset > MAX_RESULTS_OFFSET =>
    /\ pc = "return" => STATE_FILE = JsonState(state)
    /\ (pc = "return" \/ results_bound) =>
         /\ state.results_offset = 0
         /\ STATE_FILE.kind = "json" => STATE_FILE.results_offset = 0

C11_NextRunStartsAtZero ==
  (/\ prevReturned
   /\ prevEnd = "Exhausted"
   /\ fetched = <<>>
   /\ fetched' # <<>>) => fetched'[1][1] = 0

C11_ExhaustedWrapsAround ==
  /\ []C11_ReturnsWithCursorReset
  /\ [][C11_NextRunStartsAtZero]_vars

\* The run after one whose get_results returned past the window has fetched
\* the page at offset 0.
C11_Witness ==
  /\ prevReturned
  /\ prevEnd = "Exhausted"
  /\ fetched = <<<<0, TRUE>>>>
  /\ pc = "advance"

\* C12: when main's KeyboardInterrupt clause has run and no write failed, the checkpoint file
\* holds the state in memory and the results file holds every record the run
\* has in memory, whether the interrupt arrived during the collection or during
\* the enrichment pass.
C12_InterruptSavesBoth ==
  (pc = "interrupted" /\ writeFailed = <<>>) =>
    /\ STATE_FILE = JsonState(state)
    /\ PersistedResults = all_results

\* C13: after a write of the checkpoint file or of the results file has failed,
\* the run fetches no further listing page and no further detail page.
C13_NoFetchAfterFailedWrite ==
  [][writeFailed # <<>> =>
       /\ fetched' = fetched \/ fetched' = <<>>
       /\ pc' # "enrich_fetch"]_vars

\* The detail pages the running enrichment pass has fetched or is fetching.
DetailFetches ==
  Cardinality({k \in DOMAIN detail :
                 detail[k] \in {"fetch_failed", "parse_failed", "enriched"}})
  + (IF pc = "enrich_fetch" THEN 1 ELSE 0)

\* C14: a process started with a time budget of 0 fetches at most one listing
\* page and at most one detail page, whatever the files it loaded.
C14_ZeroBudgetOneUnitOfWork ==
  budget = 0 =>
    /\ Len(fetched) <= 1
    /\ DetailFetches <= 1

\* A process with budget 0 that loaded a record not yet enriched has left the
\* loop of enrich_results.
C14_Witness ==
  /\ budget = 0
  /\ pc = "enrich_end"
  /\ \E k \in 1..Len(all_results) :
       /\ ~all_results[k].details
       /\ all_results[k].id \notin state.enriched_match_ids

\* What the claim has load_state return: the file's fields, a field the file
\* lacks taking its default.
LoadedWithDefaults(file) ==
  [results_offset |->
     IF "results_offset" \in file.keys THEN file.results_offset ELSE 0,
   enriched_match_ids |->
     IF "enriched_match_ids" \in file.keys THEN file.enriched_match_ids ELSE {}]

\* C15: a process that finds no checkpoint file, or one that parses and lacks
\* a field or has unknown fields, starts get_results with the fields of the
\* file, a missing one at its default (cursor 0, empty enriched set).
C15_LoadStateDefaults ==
  [][(pc = "idle" /\ runs' = runs + 1 /\ STATE_FILE.kind # "torn") =>
       /\ pc' = "get_results"
       /\ state'.results_offset = LoadedWithDefaults(STATE_FILE).results_offset
       /\ state'.enriched_match_ids =
            LoadedWithDefaults(STATE_FILE).enriched_match_ids]_vars

\* C16: with a results file that is absent, corrupt, partial or no JSON array,
\* get_results goes on to its loop with an empty result set.
C16_LoadResultsNeverFails ==
  [][(pc = "get_results" /\ RESULTS_FILE.kind # "json") =>
       /\ pc' = "loop"
       /\ all_results' = <<>>]_vars

\* C17: a call of get_parsed_page makes at most MAX_RETRIES attempts; it
\* returns the page of the first attempt that succeeds and makes none after
\* it; it appends the URL to the failure log, once, if and only if every
\* attempt failed; the lines the log had before are unchanged.
C17_RetryThenLogOnce ==
  call.attempts # 0 =>
    /\ call.attempts \in 1..MAX_RETRIES
    /\ \A j \in 1..(call.attempts - 1) : ~call.responses[j]
    /\ call.page <=> call.responses[call.attempts]
    /\ call.page <=> \E j \in 1..MAX_RETRIES : call.responses[j]
    /\ ~call.page => call.attempts = MAX_RETRIES
    /\ FAILED_URLS_FILE =
         IF call.page THEN call.before ELSE call.before \o <<call.url>>

\* A call whose attempts all failed, made when the log already had a line.
C17_Witness ==
  /\ call.attempts = MAX_RETRIES
  /\ ~call.page
  /\ call.before # <<>>

\* The running process has made a complete pass with nothing going wrong: it
\* fetched every page from offset 0 to the end of the window, its enrichment
\* pass ran through all records with no fetch or parse failing, no write
\* failed, and main has made its final saves.
CleanFreshPass ==
  /\ pc = "done"
  /\ writeFailed = <<>>
  /\ collectEnd = "Exhausted"
  /\ fetched # <<>>
  /\ FetchedFrom(0)
  /\ enrichEnd = "exhausted"
  /\ \A k \in DOMAIN detail : detail[k] \in {"enriched", "skipped"}

\* C18: after one of the two files was deleted between runs, a run with
\* successful fetches and enough budget, whose result set holds no match id
\* twice, ends with every record carrying its details and every id of the
\* checkpoint's enriched set being a record.
C18_DeletionForcesFreshPass ==
  (deleted # "none" /\ CleanFreshPass /\ NoDuplicates(all_results)) =>
    /\ \A k \in 1..Len(all_results) : all_results[k].details
    /\ state.enriched_match_ids \subseteq IdsOf(all_results)

\* C19: when the enrichment pass has ended and main has made the saves that
\* follow it, with no write failing, the checkpoint file holds the state in
\* memory and the results file holds the result set in memory, whatever the
\* pass did.
C19_PassEndFlushesBoth ==
  (pc = "done" /\ writeFailed = <<>>) =>
    /\ STATE_FILE = JsonState(state)
    /\ RESULTS_FILE = JsonResults(all_results)

\* a is b with some elements left out, the others in b's order.
RECURSIVE IsSubsequence(_, _)
IsSubsequence(a, b) ==
  IF a = <<>> THEN TRUE
  ELSE IF b = <<>> THEN FALSE
  ELSE IF Head(a) = Head(b) THEN IsSubsequence(Tail(a), Tail(b))
  ELSE IsSubsequence(a, Tail(b))

\* The match ids of the rows of a page, in page order.
RowIds(raw) == [k \in 1..Len(raw) |-> to_int(raw[k])]

\* C20: get_results starts from the sequence loaded from the results file;
\* while it runs every record stays where it is and as it is, new ones being
\* added at the end only; the records added for a page are fresh entries in the
\* order of the page's rows; so its result is the loaded sequence followed by
\* the new records in page order and in-page order.
C20_StartsFromLoaded ==
  (pc = "get_results" /\ pc' = "loop") =>
    all_results' = load_existing_results(RESULTS_FILE)

C20_OnlyAppends ==
  (pc \notin {"idle", "get_results"} /\ pc' # "idle" /\ ~results_bound') =>
    /\ Len(all_results') >= Len(all_results)
    /\ SubSeq(all_results', 1, Len(all_results)) = all_results
    /\ LET added == SubSeq(all_results', Len(all_results) + 1, Len(all_results'))
       IN /\ \A k \in 1..Len(added) : added[k] = Entry(added[k].id)
          /\ IsSubsequence([k \in 1..Len(added) |-> added[k].id], RowIds(page'))
          /\ new_results' = new_results \o added

C20_CollectionAppendOnly ==
  /\ [][C20_StartsFromLoaded]_vars
  /\ [][C20_OnlyAppends]_vars

\* A page that lists a loaded match again and then a new one has been
\* processed: the new record stands after the loaded one.
C20_Witness ==
  /\ pc = "advance"
  /\ LoadedCount = 1
  /\ Len(page) = 2
  /\ to_int(page[1]) = all_results[1].id
  /\ Len(all_results) = 2
  /\ all_results[2].id = to_int(page[2])

\* C21: within one run the team listing is fetched at most once, however many
\* records are looked up and whether or not the first fetch succeeded or listed
\* any team.
C21_TeamListingFetchedAtMostOnce == team_fetches <= 1

\* C22: at every point of the enrichment pass where the process may be killed,
\* every record of the results file whose match id the checkpoint file marks
\* enriched carries the detail fields of that enrichment.
C22_EnrichedOnDiskHasDetails ==
  (results_bound /\ pc # "idle" /\ STATE_FILE.kind = "json") =>
    \A k \in 1..Len(PersistedResults) :
      PersistedResults[k].id \in STATE_FILE.enriched_match_ids =>
        PersistedResults[k].details

\* C23: at every point where the process may be killed, the cursor the
\* checkpoint file holds is a multiple of 100 from 0 to MAX_RESULTS_OFFSET, so
\* that a run started from it whose time is not up enters the loop of
\* get_results and fetches a page; the file never holds a cursor above
\* MAX_RESULTS_OFFSET.
C23_PersistedCursorInWindow ==
  /\ STATE_FILE.kind = "json" =>
       /\ STATE_FILE.results_offset % PAGE_STRIDE = 0
       /\ STATE_FILE.results_offset >= 0
       /\ STATE_FILE.results_offset <= MAX_RESULTS_OFFSET
  /\ (pc = "loop" /\ fetched = <<>> /\ ~time_exceeded) =>
       LoopContinues(offset, time_exceeded)

\* No record of rs is both flagged enrich_failed and marked in the set ids.
NeverEnrichedAndFailed(rs, ids) ==
  \A k \in 1..Len(rs) : ~(rs[k].enrich_failed /\ rs[k].id \in ids)

\* C24: no record is both marked enriched in the checkpoint and flagged
\* enrich_failed, in memory and in the two files, after any sequence of runs
\* (for result sets in which every match id appears once).
C24_EnrichedExcludesFailed ==
  /\ NoDuplicates(all_results) =>
       NeverEnrichedAndFailed(all_results, state.enriched_match_ids)
  /\ (STATE_FILE.kind = "json" /\ NoDuplicates(PersistedResults)) =>
       NeverEnrichedAndFailed(PersistedResults, STATE_FILE.enriched_match_ids)

\* The page fetches a run starting at cursor `start` can make.
MaxPageFetches(start) ==
  IF start > MAX_RESULTS_OFFSET THEN 0
  ELSE (MAX_RESULTS_OFFSET - start) \div PAGE_STRIDE + 1

\* C25: the collection phase ends for every starting cursor and every
\* behaviour of the fetch and the clock: the first page fetch is at the
\* starting cursor, every iteration of the loop leaves it or comes back to its
\* head with the cursor 100 higher, no offset is fetched twice, a run that
\* starts at cursor c makes at most floor((MAX_RESULTS_OFFSET - c) / 100) + 1
\* page fetches, and get_results reaches its return.
C25_FetchesBounded ==
  /\ \A k \in 1..Len(fetched) :
       /\ fetched[k][1] = fetched[1][1] + (k - 1) * PAGE_STRIDE
       /\ fetched[k][1] <= MAX_RESULTS_OFFSET
       /\ k < Len(fetched) => fetched[k][2]
  /\ fetched # <<>> => Len(fetched) <= MaxPageFetches(fetched[1][1])
  /\ (pc = "loop" /\ fetched # <<>>) =>
       offset = fetched[Len(fetched)][1] + PAGE_STRIDE
  /\ (pc = "loop" /\ fetched = <<>>) => offset = PersistedCursor

C25_IterationLeavesOrAdvances ==
  /\ (fetched = <<>> /\ fetched' # <<>>) =>
       /\ fetched'[1][1] = PersistedCursor
       /\ Len(fetched') = 1
  /\ (pc = "loop" /\ pc' # "loop") =>
       \/ pc' = "final_save"
       \/ pc' \in {"advance", "sr_open"} /\ offset' = offset
  /\ pc = "advance" => offset' = offset + PAGE_STRIDE

====
